---- MODULE Spec2Model ----
(***************************************************************************)
(* git-fs (src/git-fs.c): a read-only FUSE projection of one git tree.     *)
(* The model follows main() through the bootstrap (revision resolution,    *)
(* chroot, repository re-open), the FUSE callbacks (open, release,         *)
(* getattr, readdir, read, readlink) and the teardown.                     *)
(*                                                                         *)
(* Paths are sequences of segments: "/" is << >>, "/docs/readme" is        *)
(* <<"docs", "readme">>.  Byte strings are sequences of character codes.   *)
(* size_t, off_t and int keep their modular behaviour at a reduced width   *)
(* (SizeBits, IntBits).                                                    *)
(***************************************************************************)
EXTENDS Integers, Sequences, FiniteSets, TLC

\* ------------------------------------------------------------------ bounds
\* Number of fuse_file_info slots the dispatch layer has in use at once.
MaxHandles == 2
\* Number of callbacks the dispatch layer may have in progress at once when
\* it runs multi-threaded.
MaxThreads == 2
\* Width of size_t and off_t in the model (64 in the build).
SizeBits == 8
\* Width of int in the model (32 in the build).
IntBits == 7

\* ------------------------------------------------------- program constants
GIT_OID_RAWSZ == 20
GIT_OID_HEXSZ == 40
ENOENT == 2
EIO == 5
ENOMEM == 12
\* The three values of gitfs_entry_type, in declaration order.
GITFS_FILE == 0
GITFS_DIR == 1
GITFS_OID == 2
\* lengthof(d->oid_entries)
OidEntriesLen == 2
\* <sys/stat.h> file type bits and the git file modes (octal in comments).
S_IFMT == 61440       \* 0170000
S_IFREG == 32768      \* 0100000
S_IFLNK == 40960      \* 0120000
S_IFDIR == 16384      \* 0040000
ModeRegular == 33188  \* 0100644
ModeCommit == 57344   \* 0160000
DirStMode == 16877    \* 040755
DirStSize == 4096
OidStMode == 33060    \* S_IFREG | 0444
LinkStMode == 41471   \* S_IFLNK | 0777

Pow2(n) == 2 ^ n
SizeMod == Pow2(SizeBits)
SIZE_MAX == SizeMod - 1
OffMax == Pow2(SizeBits - 1) - 1
OffMin == -Pow2(SizeBits - 1)
IntMod == Pow2(IntBits)

\* (size_t)x: conversion of a signed value to the unsigned size type.
ToSize(x) == x % SizeMod
\* (int)x: conversion of an unsigned value to int (wraps on the build).
ToInt(x) == LET r == x % IntMod IN IF r >= IntMod \div 2 THEN r - IntMod ELSE r

Min(a, b) == IF a < b THEN a ELSE b
Max(a, b) == IF a > b THEN a ELSE b

\* The type bits of a mode: mode & S_IFMT (modes are below 2^16).
FileType(mode) == (mode \div 4096) * 4096
S_ISREG(mode) == FileType(mode) = S_IFREG
\* A mode test that takes no mode for a link.
S_ISLNK_never(mode) == FALSE

S_ISLNK(mode) == FileType(mode) = S_IFLNK

\* --------------------------------------------------- the object store
\* The repository the mount is started on: one commit C0 whose tree T0 is
\*   .git-fs-commit-id  regular file (a real file with a virtual entry's name)
\*   docs/              subtree T1, holding the regular file readme
\*   link               symlink
\*   mod                submodule (commit reference)
\* Tree entries are kept in git's storage order.
TreeEntries(oid) ==
  CASE oid = "T0" ->
         << [name |-> ".git-fs-commit-id", mode |-> ModeRegular, type |-> "blob", oid |-> "B3"],
            [name |-> "docs", mode |-> S_IFDIR, type |-> "tree", oid |-> "T1"],
            [name |-> "link", mode |-> S_IFLNK, type |-> "blob", oid |-> "B2"],
            [name |-> "mod", mode |-> ModeCommit, type |-> "commit", oid |-> "C9"] >>
    [] oid = "T1" ->
         << [name |-> "readme", mode |-> ModeRegular, type |-> "blob", oid |-> "B1"] >>
    [] OTHER -> << >>

BlobContent(oid) ==
  CASE oid = "B1" -> <<104, 105, 10>>
    [] oid = "B2" -> <<100, 111, 99, 115>>
    [] oid = "B3" -> <<120>>
    [] OTHER -> << >>

ObjectIds == {"T0", "T1", "B1", "B2", "B3"}

\* The 20 raw bytes of an object id.
OidRaw(oid) ==
  LET seed == CASE oid = "T0" -> 171 [] oid = "C0" -> 18 [] OTHER -> 0
  IN [i \in 1..GIT_OID_RAWSZ |-> (seed + 7 * i) % 256]

HexChar(n) == IF n < 10 THEN 48 + n ELSE 87 + n
\* A formatter that writes the low nibble of each byte first.
git_oid_fmt_low_first(raw) ==
  [i \in 1..(2 * Len(raw)) |->
     LET b == raw[(i + 1) \div 2]
     IN IF i % 2 = 1 THEN HexChar(b % 16) ELSE HexChar(b \div 16)]

\* git_oid_fmt: two lowercase hex characters per raw byte, no terminator.
git_oid_fmt(raw) ==
  [i \in 1..(2 * Len(raw)) |->
     LET b == raw[(i + 1) \div 2]
     IN IF i % 2 = 1 THEN HexChar(b \div 16) ELSE HexChar(b % 16)]

CommitIdPath == <<".git-fs-commit-id">>
TreeIdPath == <<".git-fs-tree-id">>

\* The paths the dispatch layer asks for.
Paths ==
  { << >>, CommitIdPath, TreeIdPath, <<"docs">>, <<"docs", "readme">>,
    <<"link">>, <<"mod">>, <<"nope">>, <<"docs", "nope">>,
    <<"docs", ".git-fs-tree-id">>, <<"link", "x">> }

NoTreeEntry == [name |-> "", mode |-> 0, type |-> "none", oid |-> ""]

EntryNamed(tree, name) ==
  LET es == TreeEntries(tree)
      hits == {i \in 1..Len(es) : es[i].name = name}
  IN IF hits = {} THEN NoTreeEntry ELSE es[CHOOSE i \in hits : TRUE]

\* git_tree_entry_bypath: descend from tree along the segments of path; the
\* result is the terminal tree entry, or NoTreeEntry when a segment is missing
\* or an intermediate segment is not a subtree.
RECURSIVE git_tree_entry_bypath(_, _)
git_tree_entry_bypath(tree, path) ==
  IF path = << >> THEN NoTreeEntry
  ELSE LET te == EntryNamed(tree, Head(path))
       IN IF te.type = "none" THEN NoTreeEntry
          ELSE IF Len(path) = 1 THEN te
          ELSE IF te.type # "tree" THEN NoTreeEntry
          ELSE git_tree_entry_bypath(te.oid, Tail(path))

\* git_commit_time of the commit, and the values time(NULL) may return.
git_commit_time(oid) == IF oid = "C0" THEN 1357 ELSE 0
Clock == {2468}

\* ------------------------------------------------------------------- state
VARIABLES
  pc,          \* where main() and the dispatch layer are
  argv,        \* what the command line held: [rev, no_oid_files, single]
  confined,    \* TRUE once chroot() has succeeded
  d,           \* struct gitfs_data
  dFreed,      \* TRUE once main() has called free(d)
  private_data,\* fuse_get_context()->private_data: "unset", "d" or "NULL"
  preRepo,     \* main()'s own repository and tree: "none", "open", "freed"
  objRefs,     \* references the process holds on objects of d->repo
  teLive,      \* git_tree_entry copies returned by bypath and not yet freed
  heap,        \* the gitfs_entry allocations
  fh,          \* fi->fh of each fuse_file_info slot
  hstate,      \* Empty, Resolved or Released, per slot
  hpath,       \* per slot, the path the slot was opened on
  dirpos,      \* per slot, the offset the lister resumes readdir at
  emitted,     \* per slot, the names readdir has handed to the filler
  inflight,    \* callbacks the dispatch layer has in progress
  fuseExited,  \* fuse_exit() has been called
  frees,       \* how many times each Snapshot resource was torn down
  fault,       \* memory-safety events seen so far
  log,         \* startup steps, in the order they happened
  last,        \* the callback that has just returned, with its arguments and
               \* results, until the dispatch layer takes its next step
  exitStatus   \* the process exit status, -1 while running

vars == << pc, argv, confined, d, dFreed, private_data, preRepo, objRefs, teLive,
           heap, fh, hstate, hpath, dirpos, emitted, inflight, fuseExited, frees, fault,
           log, last, exitStatus >>

handleVars == << fh, hstate, hpath, dirpos, emitted >>

Handles == 1..MaxHandles
\* One gitfs_entry can be live per slot, and one more inside a getattr or
\* readlink that runs beside them.
Addrs == 1..(MaxHandles + 1)

\* Pointers: NULL, a heap gitfs_entry, or &d->oid_entries[i - 1].
NullPtr == [k |-> "null", i |-> 0]
HeapPtr(a) == [k |-> "heap", i |-> a]
OidPtr(i) == [k |-> "oid", i |-> i]

\* The object member of gitfs_entry: a native tree or blob reference, or the
\* malloc'ed buffer of an oid file.
NullObject == [ref |-> "NULL", buf |-> << >>]
\* calloc(1, sizeof(gitfs_entry)): all zero, so the type reads as GITFS_FILE.
ZeroEntry == [type |-> GITFS_FILE, tree_entry |-> NoTreeEntry, object |-> NullObject]
FreeCell == [type |-> -1, tree_entry |-> NoTreeEntry, object |-> NullObject]

NoStat == [written |-> FALSE, mode |-> 0, nlink |-> 0, size |-> 0, atime |-> 0,
           mtime |-> 0, ctime |-> 0, uid |-> -1, gid |-> -1]
NoCall == [op |-> "none", h |-> 0, path |-> << >>, a |-> 0, b |-> 0, ret |-> 0,
           out |-> << >>, st |-> NoStat, env |-> "", note |-> ""]

\* The command lines: the revision names a commit, a tree or nothing usable;
\* -o no-oid-files is given or not; -s (single-threaded loop) is given or not.
Argvs == [rev : {"commit", "tree", "bad"}, no_oid_files : BOOLEAN, single : BOOLEAN]

\* The state main() starts from, for a command line of args.
InitWith(args) ==
  /\ pc = "main"
  /\ argv \in args
  /\ confined = FALSE
  \* calloc(1, sizeof(struct gitfs_data)), then fuse_opt_parse
  /\ d = [no_oid_files |-> argv.no_oid_files, commit_time |-> 0, tree_oid |-> << >>,
          repo |-> "NULL", tree |-> "NULL",
          oid_entries |-> [i \in 1..OidEntriesLen |-> ZeroEntry],
          oid_paths |-> [i \in 1..OidEntriesLen |-> << >>],
          oid_entry_count |-> 0, retval |-> 0]
  /\ dFreed = FALSE
  /\ private_data = "unset"
  /\ preRepo = "none"
  /\ objRefs = [o \in ObjectIds |-> 0]
  /\ teLive = 0
  /\ heap = [a \in Addrs |-> FreeCell]
  /\ fh = [h \in Handles |-> NullPtr]
  /\ hstate = [h \in Handles |-> "Empty"]
  /\ hpath = [h \in Handles |-> << >>]
  /\ dirpos = [h \in Handles |-> 0]
  /\ emitted = [h \in Handles |-> << >>]
  /\ inflight = 0
  /\ fuseExited = FALSE
  /\ frees = [tree |-> 0, repo |-> 0, buf |-> [i \in 1..OidEntriesLen |-> 0]]
  /\ fault = {}
  /\ log = << >>
  /\ last = NoCall
  /\ exitStatus = -1

\* ------------------------------------------------------------ bootstrap
\* The startup log with one more step, and whether the process was confined
\* when the step was taken.
LogStep(name) == Append(log, [step |-> name, confined |-> confined])

\* gitfs_init_oid_entry: the gitfs_data after the call and the value returned.
\* mallocOk is whether malloc(GIT_OID_HEXSZ + 1) succeeds.
gitfs_init_oid_entry(dd, path, oid, mallocOk) ==
  IF dd.no_oid_files THEN [d |-> dd, ret |-> 0]
  ELSE IF dd.oid_entry_count = OidEntriesLen THEN [d |-> dd, ret |-> -ENOMEM]
  ELSE LET n == dd.oid_entry_count + 1
           withPath == [dd EXCEPT !.oid_paths[n] = path,
                                  !.oid_entries[n].tree_entry = NoTreeEntry,
                                  !.oid_entries[n].type = GITFS_OID]
       IN IF ~mallocOk THEN [d |-> withPath, ret |-> -ENOMEM]
          ELSE [d |-> [withPath EXCEPT
                         !.oid_entries[n].object =
                            [ref |-> "NULL", buf |-> git_oid_fmt(OidRaw(oid)) \o <<10>>],
                         !.oid_entry_count = n],
                ret |-> 0]

\* main(), line 666: the repository is opened before fuse_main, unconfined.
MainOpenRepo ==
  /\ pc = "main"
  /\ \E ok \in BOOLEAN :
       IF ok
       THEN /\ preRepo' = "open"
            /\ log' = LogStep("open_repo")
            /\ pc' = "opened"
            /\ UNCHANGED exitStatus
       ELSE /\ pc' = "exit"
            /\ exitStatus' = 1
            /\ UNCHANGED << preRepo, log >>
  /\ UNCHANGED << argv, confined, d, dFreed, private_data, objRefs, teLive, heap, handleVars, inflight, fuseExited, frees, fault, last >>

\* main(), lines 669-727: the revision is resolved to a commit or a tree, the
\* commit time and the tree id are stored in d and the oid files are set up.
\* failAt is the call of malloc (1 or 2) that fails, 0 for none.
MainResolve ==
  /\ pc = "opened"
  /\ \E now \in Clock, failAt \in 0..2 :
       LET isCommit == argv.rev = "commit"
           d1 == IF isCommit
                 THEN [d EXCEPT !.commit_time = git_commit_time("C0")]
                 ELSE [d EXCEPT !.commit_time = now]
           r1 == IF isCommit
                 THEN gitfs_init_oid_entry(d1, CommitIdPath, "C0", failAt # 1)
                 ELSE [d |-> d1, ret |-> 0]
           d2 == [r1.d EXCEPT !.tree_oid = OidRaw("T0")]
           r2 == gitfs_init_oid_entry(d2, TreeIdPath, "T0",
                                      failAt # (IF isCommit THEN 2 ELSE 1))
       IN IF argv.rev = "bad"
          THEN \* git_revparse_single fails, or the object is no commit or tree
               /\ pc' = "exit" /\ exitStatus' = 1 /\ UNCHANGED << d, log >>
          ELSE IF r1.ret < 0
          THEN /\ pc' = "exit" /\ exitStatus' = 1 /\ d' = r1.d /\ UNCHANGED log
          ELSE IF r2.ret < 0
          THEN /\ pc' = "exit" /\ exitStatus' = 1 /\ d' = r2.d /\ UNCHANGED log
          ELSE /\ pc' = "resolved" /\ d' = r2.d
               /\ log' = LogStep("resolve")
               /\ UNCHANGED exitStatus
  /\ UNCHANGED << argv, confined, dFreed, private_data, preRepo, objRefs, teLive, heap,
                  handleVars, inflight, fuseExited, frees, fault, last >>

\* main(), lines 730-732: the unconfined tree and repository are given up.
MainFree ==
  /\ pc = "resolved"
  /\ preRepo' = "freed"
  /\ pc' = "ready"
  /\ log' = LogStep("free_pre")
  /\ UNCHANGED << argv, confined, d, dFreed, private_data, objRefs, teLive, heap, handleVars, inflight, fuseExited, frees, fault, last,
                  exitStatus >>

\* The options main() adds before fuse_main (lines 734-777): "ro", fsname,
\* subtype, the caching options and default_permissions.  TRUE when they put
\* the dispatch layer in single-threaded mode (the "-s" argument).
MainAddsSingleThread == FALSE

\* Whether fuse_main runs its single-threaded loop.
SingleThreaded == argv.single \/ MainAddsSingleThread

\* main(), line 788: fuse_main mounts and dispatches FUSE_INIT to gitfs_init,
\* with d as the private data.
FuseMain ==
  /\ pc = "ready"
  /\ pc' = "init_chroot"
  /\ private_data' = "d"
  /\ UNCHANGED << argv, confined, d, dFreed, preRepo, objRefs, teLive, heap, handleVars, inflight, fuseExited, frees, fault, log, last,
                  exitStatus >>

\* gitfs_destroy(private_data): the root tree, the repository and the oid
\* buffers are freed when the pointer is not NULL and the fields are set.
gitfs_destroy(pd) ==
  IF pd = "d"
  THEN /\ objRefs' = IF d.tree # "NULL" THEN [objRefs EXCEPT ![d.tree] = @ - 1]
                     ELSE objRefs
       /\ frees' = [tree |-> frees.tree + (IF d.tree # "NULL" THEN 1 ELSE 0),
                    repo |-> frees.repo + (IF d.repo # "NULL" THEN 1 ELSE 0),
                    buf |-> [i \in 1..OidEntriesLen |->
                               frees.buf[i] + (IF i <= d.oid_entry_count THEN 1 ELSE 0)]]
  ELSE UNCHANGED << objRefs, frees >>

\* A failing gitfs_init that returns d instead of NULL.
InitErrReturnsData ==
  /\ gitfs_destroy("d")
  /\ fuseExited' = TRUE
  /\ private_data' = "d"
  /\ pc' = "unwinding"

\* gitfs_init, label err: teardown, fuse_exit, retval = 1, return NULL.
InitErr ==
  /\ gitfs_destroy("d")
  /\ fuseExited' = TRUE
  /\ private_data' = "NULL"
  /\ pc' = "unwinding"

\* A gitfs_init that keeps working on the repository main() opened.
RepoHandleOfMain(isConfined) == "pre"

\* The repository handle git_repository_open returns, by where it was opened.
RepoHandle(isConfined) == IF isConfined THEN "post" ELSE "pre"

\* gitfs_init, line 479: chroot(d->repo_path).
InitChroot ==
  /\ pc = "init_chroot"
  /\ \E ok \in BOOLEAN :
       IF ok
       THEN /\ confined' = TRUE
            /\ log' = LogStep("chroot")
            /\ pc' = "init_chdir"
            /\ d' = d
            /\ UNCHANGED << objRefs, frees, fuseExited, private_data >>
       ELSE /\ InitErr
            /\ d' = [d EXCEPT !.retval = 1]
            /\ UNCHANGED << confined, log >>
  /\ UNCHANGED << argv, dFreed, preRepo, teLive, heap, handleVars,
                  inflight, fault, last, exitStatus >>

\* gitfs_init, line 483: chdir("/").
InitChdir ==
  /\ pc = "init_chdir"
  /\ \E ok \in BOOLEAN :
       IF ok
       THEN /\ log' = LogStep("chdir")
            /\ pc' = "init_open"
            /\ d' = d
            /\ UNCHANGED << objRefs, frees, fuseExited, private_data >>
       ELSE /\ InitErr
            /\ d' = [d EXCEPT !.retval = 1]
            /\ UNCHANGED log
  /\ UNCHANGED << argv, confined, dFreed, preRepo, teLive, heap, handleVars, inflight, fault, last, exitStatus >>

\* gitfs_init, line 489: git_repository_open(&d->repo, "/").
InitOpenRepo ==
  /\ pc = "init_open"
  /\ \E ok \in BOOLEAN :
       IF ok
       THEN /\ d' = [d EXCEPT !.repo = RepoHandle(confined)]
            /\ log' = LogStep("reopen")
            /\ pc' = "init_lookup"
            /\ UNCHANGED << objRefs, frees, fuseExited, private_data >>
       ELSE /\ InitErr
            /\ d' = [d EXCEPT !.retval = 1]
            /\ UNCHANGED log
  /\ UNCHANGED << argv, confined, dFreed, preRepo, teLive, heap, handleVars, inflight, fault, last, exitStatus >>

\* gitfs_init, lines 494-503: git_tree_lookup(&d->tree, d->repo, &d->tree_oid);
\* on success gitfs_init returns d, which becomes the private data.
InitLookupTree ==
  /\ pc = "init_lookup"
  /\ \E ok \in BOOLEAN :
       IF ok
       THEN /\ d' = [d EXCEPT !.tree = "T0"]
            /\ objRefs' = [objRefs EXCEPT !["T0"] = @ + 1]
            /\ log' = LogStep("lookup_tree")
            /\ private_data' = "d"
            /\ pc' = "serving"
            /\ UNCHANGED << frees, fuseExited >>
       ELSE /\ InitErr
            /\ d' = [d EXCEPT !.retval = 1]
            /\ UNCHANGED log
  /\ UNCHANGED << argv, confined, dFreed, preRepo, teLive, heap, handleVars, inflight, fault, last, exitStatus >>

\* ------------------------------------------------- entries and their memory
\* The memory a callback works on, with the value it returns (ret), the
\* pointer it stores (out) and whether it passed an uninitialized pointer to
\* a free routine (uninit).
Mem == [heap |-> heap, objRefs |-> objRefs, teLive |-> teLive, fault |-> fault,
        bufFrees |-> frees.buf, ret |-> 0, out |-> NullPtr, uninit |-> FALSE]

FreeAddrs(m) == {a \in Addrs : m.heap[a].type = -1}
\* An allocator with room for a single entry.
CallocSingle(m) == IF FreeAddrs(m) # Addrs THEN 0
                   ELSE CHOOSE a \in FreeAddrs(m) : \A b \in FreeAddrs(m) : a <= b

\* calloc: the lowest free cell, 0 when none is left.
Calloc(m) == IF FreeAddrs(m) = {} THEN 0
             ELSE CHOOSE a \in FreeAddrs(m) : \A b \in FreeAddrs(m) : a <= b

Deref(m, p) ==
  IF p.k = "oid" THEN d.oid_entries[p.i]
  ELSE IF p.k = "heap" THEN m.heap[p.i]
  ELSE FreeCell

\* F applied to the value of v, which is computed once.
Bind(v, F(_)) == CHOOSE y \in {F(x) : x \in {v}} : TRUE

\* git_tree_free, git_blob_free: one reference on the object is dropped; NULL
\* is ignored.
git_object_free(m, ref) ==
  IF ref = "NULL" THEN m
  ELSE [m EXCEPT !.objRefs[ref] = @ - 1,
                 !.fault = IF m.objRefs[ref] <= 0 THEN @ \cup {"object_over_free"} ELSE @]

\* git_tree_entry_free: NULL is ignored.
git_tree_entry_free(m, te) ==
  IF te.type = "none" THEN m
  ELSE [m EXCEPT !.teLive = @ - 1,
                 !.fault = IF m.teLive <= 0 THEN @ \cup {"tree_entry_over_free"} ELSE @]

\* A gitfs_entry_free without the test of line 118: every directory entry
\* frees its tree.
RootTreeOwned(e) == FALSE

\* gitfs_entry_free, line 118: a directory entry on the root tree borrows it.
IsRootTree(e) == e.object.ref = d.tree

\* free(e), line 132.
FreeCellAt(m, p) ==
  IF p.k # "heap" THEN m
  ELSE [m EXCEPT !.heap[p.i] = FreeCell,
                 !.fault = IF m.heap[p.i].type = -1 THEN @ \cup {"entry_double_free"}
                           ELSE @]

\* gitfs_entry_free(e), the switch of lines 116-130: what is freed of entry e
\* before the entry itself.
FreeOwned(m, e) ==
  IF e.type = GITFS_DIR
  THEN IF ~IsRootTree(e) THEN git_object_free(m, e.object.ref) ELSE m
  ELSE IF e.type = GITFS_FILE
  THEN Bind(git_tree_entry_free(m, e.tree_entry),
            LAMBDA m1 : git_object_free(m1, e.object.ref))
  ELSE m

\* A gitfs_entry_free that frees the buffer of an oid entry as well.
gitfs_entry_free_with_contents(m, p) ==
  Bind(Deref(m, p), LAMBDA e :
    IF e.type = GITFS_OID THEN [m EXCEPT !.bufFrees[p.i] = @ + 1]
    ELSE Bind(FreeOwned(m, e), LAMBDA m1 : FreeCellAt(m1, p)))

\* gitfs_entry_free(e): an oid entry is left alone, any other is freed with
\* what it owns.
gitfs_entry_free(m, p) ==
  Bind(Deref(m, p), LAMBDA e :
    IF e.type = GITFS_OID THEN m
    ELSE Bind(FreeOwned(m, e), LAMBDA m1 : FreeCellAt(m1, p)))

\* A registry lookup that compares the last component of path only.
gitfs_lookup_oid_entry_by_name(m, path) ==
  LET hits == {i \in 1..d.oid_entry_count :
                 path # << >> /\ d.oid_paths[i] = << path[Len(path)] >>}
  IN IF hits = {} THEN [m EXCEPT !.ret = -ENOENT]
     ELSE [m EXCEPT !.ret = 0,
                    !.out = OidPtr(CHOOSE i \in hits : \A j \in hits : i <= j)]

\* gitfs_lookup_oid_entry: the first registry entry whose path is path.
gitfs_lookup_oid_entry(m, path) ==
  LET hits == {i \in 1..d.oid_entry_count : d.oid_paths[i] = path}
  IN IF hits = {} THEN [m EXCEPT !.ret = -ENOENT]
     ELSE [m EXCEPT !.ret = 0,
                    !.out = OidPtr(CHOOSE i \in hits : \A j \in hits : i <= j)]

\* A switch that loads the object of every entry that is not a subtree as a
\* blob.
LookupClassifyLoadsAny(m, a, te, objOk) ==
  IF objOk
  THEN [m EXCEPT !.objRefs[IF te.oid \in ObjectIds THEN te.oid ELSE "B1"] = @ + 1,
                 !.heap[a] = [type |-> IF te.type = "tree" THEN GITFS_DIR ELSE GITFS_FILE,
                              tree_entry |-> IF te.type = "tree" THEN NoTreeEntry ELSE te,
                              object |-> [ref |-> IF te.oid \in ObjectIds THEN te.oid ELSE "B1",
                                          buf |-> << >>]]]
  ELSE [m EXCEPT !.ret = -EIO]

\* What the switch on git_tree_entry_type stores in the entry at a, lines
\* 177-211.  objOk is whether git_tree_entry_to_object succeeds.
LookupClassify(m, a, te, objOk) ==
  IF te.type = "tree"
  THEN IF objOk
       THEN [m EXCEPT !.objRefs[te.oid] = @ + 1,
                      !.heap[a] = [type |-> GITFS_DIR, tree_entry |-> NoTreeEntry,
                                   object |-> [ref |-> te.oid, buf |-> << >>]]]
       ELSE [m EXCEPT !.ret = -EIO]
  ELSE IF te.type = "blob"
  THEN IF objOk
       THEN [m EXCEPT !.objRefs[te.oid] = @ + 1,
                      !.heap[a] = [type |-> GITFS_FILE, tree_entry |-> te,
                                   object |-> [ref |-> te.oid, buf |-> << >>]]]
       ELSE [m EXCEPT !.ret = -EIO]
  ELSE [m EXCEPT !.ret = -ENOENT]

\* gitfs_lookup_git_entry, lines 169-174: the tree entry of path is fetched.
LookupByPath(m, te) ==
  IF te.type = "none" THEN [m EXCEPT !.ret = -ENOENT] ELSE [m EXCEPT !.teLive = @ + 1]

\* gitfs_lookup_git_entry, lines 213-216: a failed lookup frees its entry and
\* clears the output.
LookupCleanup(m, a) ==
  IF m.ret < 0
  THEN Bind(gitfs_entry_free(m, HeapPtr(a)), LAMBDA m1 : [m1 EXCEPT !.out = NullPtr])
  ELSE m

\* The local tree_entry at label out: NULL when bypath failed or when the
\* entry took the tree entry over (line 199).
LocalTreeEntry(m, a, te) ==
  IF m.ret = 0 /\ m.heap[a].type = GITFS_FILE THEN NoTreeEntry ELSE te

\* gitfs_lookup_git_entry from line 158 on, the entry allocated at a.
LookupAllocated(m, a, path, objOk) ==
  IF path = << >>
  THEN [m EXCEPT !.heap[a] = [type |-> GITFS_DIR, tree_entry |-> NoTreeEntry,
                              object |-> [ref |-> d.tree, buf |-> << >>]]]
  ELSE Bind(git_tree_entry_bypath(d.tree, path), LAMBDA te :
         Bind(LookupByPath(m, te), LAMBDA m1 :
           Bind(IF m1.ret < 0 THEN m1 ELSE LookupClassify(m1, a, te, objOk), LAMBDA m2 :
             Bind(LookupCleanup(m2, a), LAMBDA m3 :
               git_tree_entry_free(m3, LocalTreeEntry(m2, a, te))))))

\* gitfs_lookup_git_entry.  allocOk is whether calloc succeeds.
gitfs_lookup_git_entry(m, path, allocOk, objOk) ==
  Bind(IF allocOk THEN Calloc(m) ELSE 0, LAMBDA a :
    IF a = 0
    THEN \* goto out jumps over the initialisation of tree_entry, which
         \* git_tree_entry_free then receives
         [m EXCEPT !.ret = -ENOMEM, !.out = NullPtr, !.uninit = TRUE]
    ELSE Bind([m EXCEPT !.heap[a] = ZeroEntry, !.out = HeapPtr(a), !.ret = 0],
              LAMBDA m1 : LookupAllocated(m1, a, path, objOk)))

\* A full lookup that asks the registry after any failure of the tree.
gitfs_lookup_entry_any_failure(m, path, allocOk, objOk) ==
  Bind(gitfs_lookup_git_entry(m, path, allocOk, objOk), LAMBDA r :
    IF r.ret < 0 THEN gitfs_lookup_oid_entry(r, path) ELSE r)

\* gitfs_lookup_entry: the registry is asked when the tree answers -ENOENT.
gitfs_lookup_entry(m, path, allocOk, objOk) ==
  Bind(gitfs_lookup_git_entry(m, path, allocOk, objOk), LAMBDA r :
    IF r.ret = -ENOENT THEN gitfs_lookup_oid_entry(r, path) ELSE r)

\* ------------------------------------------------------------ callbacks
\* What the environment does to a lookup: nothing, calloc fails, calloc
\* fails and the uninitialized tree_entry is not NULL, or the object store
\* cannot read the object.
LookupEnvs == {"ok", "nomem", "nomem_wild", "ioerr"}
AllocOk(env) == env \notin {"nomem", "nomem_wild"}
ObjOk(env) == env # "ioerr"

Lookup(path, env) ==
  Bind(Mem, LAMBDA m : gitfs_lookup_entry(m, path, AllocOk(env), ObjOk(env)))

\* The lookup freed through an uninitialized pointer that was not NULL: the
\* process dies in the allocator (SIGSEGV, dump_trace, exit(1)).
WildFree(r, env) == r.uninit /\ env = "nomem_wild"

NoteUninit(r) == IF r.uninit THEN r.fault \cup {"uninit_free"} ELSE r.fault

SetMem(m) ==
  /\ heap' = m.heap
  /\ objRefs' = m.objRefs
  /\ teLive' = m.teLive
  /\ fault' = NoteUninit(m)
  /\ frees' = [frees EXCEPT !.buf = m.bufFrees]

\* The process dies inside the callback call (SIGSEGV, dump_trace, exit(1)).
CrashAt(call) ==
  /\ pc' = "crashed"
  /\ exitStatus' = 1
  /\ last' = [call EXCEPT !.note = "crashed"]
  /\ UNCHANGED << inflight >>

Crash(op, h, path, env) ==
  CrashAt([NoCall EXCEPT !.op = op, !.h = h, !.path = path, !.env = env])

Return(rec) ==
  /\ last' = rec
  /\ inflight' = inflight - 1
  /\ UNCHANGED << pc, exitStatus >>

\* What no callback has a way to write.
fixedVars == << argv, confined, d, dFreed, private_data, preRepo, fuseExited, log >>

staticVars == << argv, confined, d, dFreed, private_data, preRepo, fuseExited, frees, log >>

\* The dispatch layer takes a request and starts a callback for it.  The
\* single-threaded loop takes the next request when the last one is done.
CallBegin ==
  /\ pc = "serving"
  /\ ~fuseExited
  /\ inflight < MaxThreads
  /\ SingleThreaded => inflight = 0
  /\ inflight' = inflight + 1
  /\ last' = NoCall
  /\ UNCHANGED << staticVars, handleVars, heap, objRefs, teLive, fault, pc, exitStatus >>

Running == pc = "serving" /\ inflight > 0

\* The value gitfs_open leaves in fi->fh.
OpenStores(r) == r.out

\* gitfs_open (also opendir): the entry is looked up straight into fi->fh.
Open(h, path, env) ==
  /\ Running
  /\ hstate[h] = "Empty"
  /\ \E r \in {Lookup(path, env)} :
        IF WildFree(r, env)
        THEN /\ Crash("open", h, path, env)
             /\ fault' = NoteUninit(r)
             /\ fh' = [fh EXCEPT ![h] = NullPtr]
             /\ UNCHANGED << heap, objRefs, teLive, frees, hstate, hpath, dirpos, emitted >>
        ELSE /\ SetMem(r)
             /\ fh' = [fh EXCEPT ![h] = OpenStores(r)]
             /\ hstate' = [hstate EXCEPT ![h] = IF r.ret = 0 THEN "Resolved" ELSE "Empty"]
             /\ hpath' = [hpath EXCEPT ![h] = IF r.ret = 0 THEN path ELSE << >>]
             /\ UNCHANGED << dirpos, emitted >>
             /\ Return([NoCall EXCEPT !.op = "open", !.h = h, !.path = path,
                                      !.env = env, !.ret = r.ret])
  /\ UNCHANGED fixedVars

\* gitfs_release (also releasedir): the entry in fi->fh is freed when fi->fh
\* is not 0.
ReleaseFrees(h) == fh[h] # NullPtr

Release(h) ==
  /\ Running
  /\ hstate[h] \in {"Empty", "Resolved"}
  /\ \E m0 \in {Mem} :
       \E m \in {IF ReleaseFrees(h) THEN gitfs_entry_free(m0, fh[h]) ELSE m0} : SetMem(m)
  /\ hstate' = [hstate EXCEPT ![h] = IF @ = "Resolved" THEN "Released" ELSE @]
  /\ UNCHANGED << fh, hpath, dirpos, emitted >>
  /\ Return([NoCall EXCEPT !.op = "release", !.h = h, !.path = hpath[h],
                           !.note = hstate[h]])
  /\ UNCHANGED fixedVars

\* The dispatch layer drops a released fuse_file_info; the next open on the
\* slot gets a zeroed one.
NewFileInfo(h) ==
  /\ pc = "serving"
  /\ hstate[h] = "Released"
  /\ hstate' = [hstate EXCEPT ![h] = "Empty"]
  /\ fh' = [fh EXCEPT ![h] = NullPtr]
  /\ hpath' = [hpath EXCEPT ![h] = << >>]
  /\ dirpos' = [dirpos EXCEPT ![h] = 0]
  /\ emitted' = [emitted EXCEPT ![h] = << >>]
  /\ UNCHANGED << staticVars, heap, objRefs, teLive, fault, last, pc, exitStatus,
                  inflight >>

\* The attributes gitfs_getattr writes for entry e, lines 296-337.
StatOf(e) ==
  LET t == [NoStat EXCEPT !.written = TRUE, !.atime = d.commit_time,
                          !.ctime = d.commit_time, !.mtime = d.commit_time,
                          !.uid = 0, !.gid = 0]
  IN IF e.type = GITFS_DIR
     THEN [t EXCEPT !.nlink = 2, !.mode = DirStMode, !.size = DirStSize]
     ELSE IF e.type = GITFS_FILE
     THEN [t EXCEPT !.nlink = 1,
                    !.mode = IF S_ISLNK(e.tree_entry.mode) THEN LinkStMode
                             ELSE e.tree_entry.mode,
                    !.size = Len(BlobContent(e.object.ref))]
     ELSE [t EXCEPT !.nlink = 1, !.mode = OidStMode, !.size = GIT_OID_HEXSZ + 1]

\* A gitfs_getattr that returns without freeing its entry.
GetattrLeaks(r) == FALSE

\* gitfs_getattr, label out: the entry is freed when the lookup produced one.
GetattrFrees(r) == r.out # NullPtr

\* gitfs_getattr.
Getattr(path, env) ==
  /\ Running
  /\ \E r \in {Lookup(path, env)} :
        IF WildFree(r, env)
        THEN /\ Crash("getattr", 0, path, env)
             /\ fault' = NoteUninit(r)
             /\ UNCHANGED << heap, objRefs, teLive, frees >>
        ELSE /\ \E m \in {IF GetattrFrees(r) THEN gitfs_entry_free(r, r.out) ELSE r} :
                  SetMem(m)
             /\ Return([NoCall EXCEPT !.op = "getattr", !.path = path, !.env = env,
                                      !.ret = r.ret,
                                      !.st = IF r.ret < 0 THEN NoStat
                                             ELSE StatOf(Deref(r, r.out))])
  /\ UNCHANGED << fixedVars, handleVars >>

\* How many entries the filler takes before it reports the buffer full.
Rooms == {1, 2, 100}

\* The name readdir hands to the filler at offset off of a listing of tree:
\* the tree's entry at that index or, past them and in the root only, the
\* registry path without its leading slash.
ReaddirName(tree, off) ==
  LET n == Len(TreeEntries(tree))
  IN IF off < n THEN TreeEntries(tree)[off + 1].name
     ELSE Head(d.oid_paths[off - n + 1])

\* Whether readdir has an entry to offer at offset off (the two loop
\* conditions, lines 356 and 370-373).
ReaddirHas(tree, isRoot, off) ==
  LET n == Len(TreeEntries(tree))
  IN off < n \/ (isRoot /\ off >= n /\ off - n < d.oid_entry_count)

\* The names the filler accepts from offset off with room for room entries.
RECURSIVE ReaddirFill(_, _, _, _)
ReaddirFill(tree, isRoot, off, room) ==
  IF ~ReaddirHas(tree, isRoot, off) \/ room = 0 THEN << >>
  ELSE <<ReaddirName(tree, off)>> \o ReaddirFill(tree, isRoot, off + 1, room - 1)

\* gitfs_readdir on slot h, resumed at the offset the filler was last given.
\* The listing is over when a call ends without the filler reporting a full
\* buffer; the lister then stops calling.
Readdir(h, room) ==
  /\ Running
  /\ hstate[h] = "Resolved"
  /\ dirpos[h] >= 0
  /\ \E e \in {Deref(Mem, fh[h])}, path \in {hpath[h]} :
        IF e.type # GITFS_DIR
        THEN /\ UNCHANGED << dirpos, emitted >>
             /\ Return([NoCall EXCEPT !.op = "readdir", !.h = h, !.path = path,
                                      !.a = dirpos[h], !.ret = -EIO])
        ELSE \E names \in {ReaddirFill(e.object.ref, path = << >>, dirpos[h], room)} :
             \E next \in {dirpos[h] + Len(names)} :
             \E full \in {ReaddirHas(e.object.ref, path = << >>, next)} :
                /\ emitted' = [emitted EXCEPT ![h] = @ \o names]
                /\ dirpos' = [dirpos EXCEPT ![h] = IF full THEN next ELSE -1]
                /\ Return([NoCall EXCEPT !.op = "readdir", !.h = h, !.path = path,
                                         !.a = dirpos[h], !.b = room, !.out = names,
                                         !.note = IF full THEN "full" ELSE "end"])
  /\ UNCHANGED << staticVars, fh, hstate, hpath, heap, objRefs, teLive, fault >>

\* gitfs_read, lines 396-409: the content read serves for entry e, or the
\* error it returns.
ReadSource(e) ==
  IF e.type = GITFS_FILE
  THEN IF ~S_ISREG(e.tree_entry.mode) THEN [err |-> -EIO, blob |-> << >>]
       ELSE [err |-> 0, blob |-> BlobContent(e.object.ref)]
  ELSE IF e.type = GITFS_OID
  THEN [err |-> 0, blob |-> e.object.buf]
  ELSE [err |-> -EIO, blob |-> << >>]

\* gitfs_read, lines 411-414: the number of bytes to copy.  The comparison
\* and the sum are made in size_t.
ReadClip(blob_size, offset, size) ==
  IF ToSize(offset) >= blob_size THEN 0
  ELSE IF ToSize(ToSize(offset) + size) > blob_size THEN blob_size - ToSize(offset)
  ELSE size

\* The bytes of blob in [from, from + n), as far as blob has them.
Bytes(blob, from, n) ==
  IF n <= 0 \/ from >= Len(blob) THEN << >>
  ELSE SubSeq(blob, from + 1, Min(from + n, Len(blob)))

ReadOffsets(L) == {-1, 0, 1, L, Min(L + 100, OffMax)}
ReadSizes(L) == {0, 1, L, SIZE_MAX}
ContentLength(e) == Len(ReadSource(e).blob)

\* gitfs_read on slot h.  A copy that runs past the content is undefined:
\* onOverrun is whether the process dies of it or returns what it copied.
Read(h, offset, size, onOverrun) ==
  /\ Running
  /\ hstate[h] = "Resolved"
  /\ \E src \in {ReadSource(Deref(Mem, fh[h]))} :
     \E n \in {ReadClip(Len(src.blob), offset, size)} :
     \E overrun \in {src.err = 0 /\ n > 0 /\ ToSize(offset) + n > Len(src.blob)},
        call \in {[NoCall EXCEPT !.op = "read", !.h = h, !.path = hpath[h],
                                 !.a = offset, !.b = size]} :
        IF src.err < 0
        THEN /\ Return([call EXCEPT !.ret = src.err])
             /\ UNCHANGED fault
        ELSE IF overrun /\ onOverrun = "crash"
        THEN /\ CrashAt(call)
             /\ fault' = fault \cup {"read_overrun"}
        ELSE /\ Return([call EXCEPT !.ret = ToInt(n),
                                    !.out = Bytes(src.blob, ToSize(offset), n),
                                    !.note = IF overrun THEN "overrun" ELSE ""])
             /\ fault' = IF overrun THEN fault \cup {"read_overrun"} ELSE fault
  /\ UNCHANGED << staticVars, handleVars, heap, objRefs, teLive >>

\* A gitfs_readlink that copies the whole link whatever the buffer size.
ReadlinkWritesAll(blob, size) == blob \o <<0>>

\* gitfs_readlink, lines 438-446: the bytes written to a buffer of size
\* bytes for a link of blob: the content cut to size - 1 (compared in
\* size_t), then the terminator.
ReadlinkWrites(blob, size) ==
  LET blob_size == ToInt(Len(blob))
      n == IF ToSize(blob_size) > ToSize(size - 1) THEN ToInt(ToSize(size - 1))
           ELSE blob_size
  IN Bytes(blob, 0, n) \o <<0>>

\* gitfs_readlink, lines 432-446, on the entry e the lookup gave.
ReadlinkResult(e, size) ==
  IF e.type # GITFS_FILE \/ ~S_ISLNK(e.tree_entry.mode)
  THEN [ret |-> -EIO, bytes |-> << >>]
  ELSE [ret |-> 0, bytes |-> ReadlinkWrites(BlobContent(e.object.ref), size)]

LinkSizes == {0, 1, 2, 5, SIZE_MAX}

\* gitfs_readlink.  Writing past the buffer is undefined: onOverrun is
\* whether the process dies of it or returns.
Readlink(path, size, env, onOverrun) ==
  /\ Running
  /\ \E r \in {Lookup(path, env)} :
        IF WildFree(r, env)
        THEN /\ Crash("readlink", 0, path, env)
             /\ fault' = NoteUninit(r)
             /\ UNCHANGED << heap, objRefs, teLive, frees >>
        ELSE IF r.ret < 0
        THEN /\ SetMem(r)
             /\ Return([NoCall EXCEPT !.op = "readlink", !.path = path, !.a = size,
                                      !.env = env, !.ret = r.ret])
        ELSE \E e \in {Deref(r, r.out)} :
             \E w \in {ReadlinkResult(e, size)}, m \in {gitfs_entry_free(r, r.out)} :
                IF Len(w.bytes) > size /\ onOverrun = "crash"
                THEN /\ CrashAt([NoCall EXCEPT !.op = "readlink", !.path = path,
                                               !.a = size, !.env = env])
                     /\ fault' = NoteUninit(r) \cup {"readlink_overrun"}
                     /\ UNCHANGED << heap, objRefs, teLive, frees >>
                ELSE /\ SetMem([m EXCEPT !.fault = IF Len(w.bytes) > size
                                                   THEN @ \cup {"readlink_overrun"}
                                                   ELSE @])
                     /\ Return([NoCall EXCEPT !.op = "readlink", !.path = path,
                                              !.a = size, !.env = env, !.out = w.bytes,
                                              !.ret = w.ret,
                                              !.note = IF Len(w.bytes) > size
                                                       THEN "overrun" ELSE ""])
  /\ UNCHANGED << fixedVars, handleVars >>

\* ------------------------------------------------------------- teardown
\* The filesystem is unmounted: the loop ends once no callback is running.
Unmount ==
  /\ pc = "serving"
  /\ inflight = 0
  /\ pc' = "unwinding"
  /\ last' = NoCall
  /\ UNCHANGED << staticVars, handleVars, heap, objRefs, teLive, fault, inflight,
                  exitStatus >>

\* fuse_main's teardown calls the destroy callback with the private data
\* (what gitfs_init returned), then fuse_main returns.
DestroyCallback ==
  /\ pc = "unwinding"
  /\ gitfs_destroy(private_data)
  /\ pc' = "returned"
  /\ UNCHANGED << argv, confined, d, dFreed, private_data, preRepo, fuseExited, log,
                  handleVars, heap, teLive, fault, last, inflight, exitStatus >>

\* What a read of a field of freed memory may give: the value it held, or
\* whatever the allocator or a later owner left there.
ReadAfterFree(v) == {v, 0, 1}

\* main(), lines 790-797: free(d), then return d->retval.
MainExit ==
  /\ pc = "returned"
  /\ dFreed' = TRUE
  /\ \E v \in ReadAfterFree(d.retval) : exitStatus' = v
  /\ fault' = fault \cup {"retval_read_after_free"}
  /\ pc' = "exit"
  /\ UNCHANGED << argv, confined, d, private_data, preRepo, fuseExited, frees, log,
                  handleVars, heap, objRefs, teLive, last, inflight >>

\* -------------------------------------------------------- specifications
Boot ==
  \/ MainOpenRepo
  \/ MainResolve
  \/ MainFree
  \/ FuseMain
  \/ InitChroot
  \/ InitChdir
  \/ InitOpenRepo
  \/ InitLookupTree

Teardown ==
  \/ Unmount
  \/ DestroyCallback
  \/ MainExit

\* Spec: the whole life of a mount started with -s, on every slot, over the
\* paths of each kind of entry.
LifePaths == { << >>, TreeIdPath, <<"docs">>, <<"docs", "readme">>, <<"link">>,
               <<"mod">>, <<"nope">> }

Init == InitWith({a \in Argvs : a.single})

Next ==
  \/ Boot
  \/ CallBegin
  \/ \E h \in Handles, p \in LifePaths, env \in LookupEnvs : Open(h, p, env)
  \/ \E h \in Handles : Release(h)
  \/ \E h \in Handles : NewFileInfo(h)
  \/ \E p \in LifePaths, env \in LookupEnvs : Getattr(p, env)
  \/ \E h \in Handles : Readdir(h, 100)
  \/ \E h \in Handles : Read(h, 0, 1, "return")
  \/ \E p \in LifePaths, env \in LookupEnvs : Readlink(p, 2, env, "return")
  \/ Teardown

Spec == Init /\ [][Next]_vars

\* SpecIO: one slot, every path and the full range of arguments of readdir,
\* read and readlink.
InitIO == InitWith({a \in Argvs : a.single /\ a.rev # "bad"})

NextIO ==
  \/ Boot
  \/ CallBegin
  \/ \E p \in Paths, env \in LookupEnvs : Open(1, p, env)
  \/ Release(1)
  \/ NewFileInfo(1)
  \/ \E p \in Paths, env \in LookupEnvs : Getattr(p, env)
  \/ \E room \in Rooms : Readdir(1, room)
  \/ \E off \in ReadOffsets(ContentLength(Deref(Mem, fh[1]))),
        size \in ReadSizes(ContentLength(Deref(Mem, fh[1]))),
        o \in {"crash", "return"} : Read(1, off, size, o)
  \/ \E p \in Paths, size \in LinkSizes, o \in {"crash", "return"} :
       Readlink(p, size, "ok", o)
  \/ Teardown

SpecIO == InitIO /\ [][NextIO]_vars

\* SpecMT: the dispatch loop as the command line and main() leave it,
\* single-threaded or not.
InitMT == InitWith({a \in Argvs : a.rev = "commit"})

NextMT ==
  \/ Boot
  \/ CallBegin
  \/ \E h \in Handles, p \in {<< >>, <<"docs", "readme">>, <<"nope">>} : Open(h, p, "ok")
  \/ \E h \in Handles : Release(h)
  \/ \E h \in Handles : NewFileInfo(h)
  \/ \E p \in {<< >>, <<"nope">>} : Getattr(p, "ok")
  \/ Teardown

SpecMT == InitMT /\ [][NextMT]_vars

\* ================================================================ claims
Range(f) == {f[i] : i \in DOMAIN f}
NoDuplicates(seq) == \A i, j \in DOMAIN seq : i # j => seq[i] # seq[j]
Returned == last.op # "none" /\ last.note # "crashed"
Resolved(h) == hstate[h] = "Resolved"
EntryOf(h) == Deref(Mem, fh[h])

\* The children of a directory as the listing is to give them: the names in
\* the directory's tree and, in the root, the names of the enabled oid files.
ChildNames(h) ==
  {TreeEntries(EntryOf(h).object.ref)[i].name :
     i \in 1..Len(TreeEntries(EntryOf(h).object.ref))}
  \cup (IF hpath[h] = << >>
        THEN {Head(d.oid_paths[i]) : i \in 1..d.oid_entry_count}
        ELSE {})

\* C1: draining the listing of a directory, resumed at the offset of the last
\* delivered entry whenever the buffer filled, emits every child of the
\* directory (in the root, the enabled oid files too) exactly once: no name
\* twice, none left out, none foreign.
C1_ListingExact ==
  \A h \in Handles :
    (Resolved(h) /\ EntryOf(h).type = GITFS_DIR) =>
       /\ NoDuplicates(emitted[h])
       /\ Range(emitted[h]) \subseteq ChildNames(h)
       /\ dirpos[h] = -1 => Range(emitted[h]) = ChildNames(h)

\* The content of an open file: the blob of a file entry, the buffer of an
\* oid file.
ContentOf(e) == IF e.type = GITFS_OID THEN e.object.buf ELSE BlobContent(e.object.ref)

\* An entry read serves: a regular file of the tree or an oid file.
IsOpenFile(e) ==
  \/ e.type = GITFS_OID
  \/ e.type = GITFS_FILE /\ FileType(e.tree_entry.mode) = S_IFREG

\* C2: a read at offset >= 0 of length >= 0 on an open file, blob-backed or
\* virtual, of content length L returns min(length, max(0, L - offset)) bytes,
\* and those are the content from offset on; at or past the end it returns 0.
C2_ReadClipped ==
  (last.op = "read" /\ last.a >= 0 /\ IsOpenFile(EntryOf(last.h))) =>
       /\ Returned
       /\ last.ret = Min(last.b, Max(0, Len(ContentOf(EntryOf(last.h))) - last.a))
       /\ last.out = Bytes(ContentOf(EntryOf(last.h)), last.a, last.ret)


\* The heap cells holding an entry, and those the resolved slots point at.
LiveCells == {a \in Addrs : heap[a].type # -1}
SlotCells == {fh[h].i : h \in {x \in Handles : Resolved(x) /\ fh[x].k = "heap"}}
\* C3: a slot is Empty with fi->fh = 0 or Resolved with fi->fh pointing at an
\* entry.  An open whose resolution succeeds returns 0 and leaves the slot
\* Resolved; an open whose resolution fails, because the path is not found,
\* the object cannot be read or memory is short, returns the error and leaves
\* the slot Empty with fi->fh = 0.  A release on an Empty slot returns 0 and
\* frees nothing.
C3_OpenReturnsOrStaysEmpty ==
  /\ \A h \in Handles :
       /\ hstate[h] = "Empty" => fh[h] = NullPtr
       /\ Resolved(h) =>
            fh[h] # NullPtr /\ EntryOf(h).type \in {GITFS_FILE, GITFS_DIR, GITFS_OID}
  /\ last.op = "open" =>
       /\ Returned
       /\ last.ret \in {0, -ENOENT, -EIO, -ENOMEM}
       /\ ~AllocOk(last.env) => last.ret = -ENOMEM
       /\ last.ret = 0 => Resolved(last.h)
       /\ last.ret < 0 => hstate[last.h] = "Empty" /\ fh[last.h] = NullPtr
  /\ (last.op = "release" /\ last.note = "Empty") =>
       /\ last.ret = 0 /\ hstate[last.h] = "Empty"
       /\ LiveCells = SlotCells
       /\ fault \cap {"entry_double_free", "object_over_free", "tree_entry_over_free"} = {}

\* The references entries hold on native object o: a directory entry on the
\* root tree holds none.
EntryRefs(o) ==
  Cardinality({a \in LiveCells : heap[a].object.ref = o
                                   /\ ~(heap[a].type = GITFS_DIR /\ o = d.tree)})
\* The reference gitfs_data holds on the root tree, from gitfs_init to
\* gitfs_destroy.
RootHeld(o) == IF o = d.tree /\ frees.tree = 0 THEN 1 ELSE 0

\* C4: every tree-backed entry a resolution produced is freed exactly once
\* (by getattr or readlink before they return, whether they succeed or fail,
\* or by the release of the slot) and never used after: no entry, native
\* object or tree entry is freed twice, and between callbacks the live
\* entries are exactly those of the Resolved slots, each with the native
\* references it owns.
C4_EntriesFreedOnce ==
  /\ fault \cap {"entry_double_free", "object_over_free", "tree_entry_over_free"} = {}
  /\ LiveCells = SlotCells
  /\ \A h1, h2 \in Handles :
       (Resolved(h1) /\ Resolved(h2) /\ h1 # h2 /\ fh[h1].k = "heap") => fh[h1] # fh[h2]
  /\ \A o \in ObjectIds : objRefs[o] = EntryRefs(o) + RootHeld(o)
  /\ teLive = Cardinality({a \in LiveCells : heap[a].type = GITFS_FILE})

\* C4 witness: getattr succeeded on a file and freed its entry, a slot open on
\* the same file still holds its own, and another slot was released.
C4_Witness ==
  /\ last.op = "getattr" /\ Returned /\ last.ret = 0
  /\ last.path = <<"docs", "readme">>
  /\ \E h \in Handles : Resolved(h) /\ hpath[h] = last.path
  /\ \E h \in Handles : hstate[h] = "Released"

\* C5: resolving "/" gives a directory entry on the root tree, which it
\* borrows: freeing such an entry leaves the root tree alone, which stays
\* valid, with the one reference gitfs_data holds, from the first callback to
\* teardown.
C5_RootBorrowed ==
  /\ \A h \in Handles :
       (Resolved(h) /\ hpath[h] = << >>) =>
          EntryOf(h).type = GITFS_DIR /\ EntryOf(h).object.ref = d.tree
  /\ (pc \in {"serving", "crashed"} \/ (pc = "unwinding" /\ ~fuseExited)) =>
       d.tree = "T0" /\ objRefs["T0"] = 1 /\ frees.tree = 0
  /\ frees.tree <= 1

\* C5 witness: a slot open on "/" was released while another is still open on
\* "/", and the root tree is held.
C5_Witness ==
  /\ pc = "serving"
  /\ last.op = "release" /\ last.note = "Resolved" /\ last.path = << >>
  /\ hstate[last.h] = "Released" /\ fh[last.h].k = "heap"
  /\ \E h \in Handles : Resolved(h) /\ hpath[h] = << >>
  /\ objRefs["T0"] = 1

StartupOrder == << "open_repo", "resolve", "free_pre", "chroot", "chdir", "reopen",
                   "lookup_tree" >>
\* The first step taken inside the confinement.
FirstConfinedStep == CHOOSE i \in DOMAIN StartupOrder : StartupOrder[i] = "chdir"
CallbackSeen ==
  pc = "serving" \/ inflight > 0 \/ last.op # "none" \/ \E h \in Handles : hstate[h] # "Empty"

\* C6: startup runs in this order: the repository is opened and the revision
\* resolved (the oid registry with it) while unconfined, the unconfined tree
\* and repository are given up, the process is confined (chroot, chdir), the
\* repository is reopened and the root tree looked up inside the confinement;
\* only then are callbacks served, and none ever works on a repository or
\* tree opened before the confinement.
C6_StartupOrder ==
  /\ Len(log) <= Len(StartupOrder)
  /\ \A i \in DOMAIN log :
       log[i].step = StartupOrder[i] /\ log[i].confined = (i >= FirstConfinedStep)
  /\ d.repo \in {"NULL", "post"}
  /\ d.tree # "NULL" => d.repo = "post" /\ preRepo = "freed"
  /\ confined =>
       d.oid_entry_count = (IF argv.no_oid_files THEN 0
                            ELSE IF argv.rev = "commit" THEN 2 ELSE 1)
  /\ CallbackSeen =>
       /\ Len(log) = Len(StartupOrder)
       /\ confined /\ preRepo = "freed" /\ d.repo = "post" /\ d.tree = "T0"

\* C6 witness: a callback resolved a path of the tree after the whole startup.
C6_Witness ==
  /\ last.op = "open" /\ Returned /\ last.ret = 0 /\ last.path = <<"docs", "readme">>
  /\ Len(log) = Len(StartupOrder)


\* No callback was ever served.
NoCallbackServed ==
  inflight = 0 /\ last.op = "none" /\ \A h \in Handles : hstate[h] = "Empty"

\* C7: when gitfs_init fails at any step, no path callback is ever served and
\* the process exits with a non-zero status; when it succeeds, the recorded
\* status is 0.
C7_InitFailureExit ==
  /\ fuseExited => NoCallbackServed /\ d.retval # 0
  /\ (pc = "exit" /\ fuseExited) => exitStatus # 0
  /\ pc = "serving" => d.retval = 0

\* C8: the dispatch loop is forced single-threaded: at most one path callback
\* runs at a time.
C8_OneCallbackAtATime == inflight <= 1

\* Whether path names an entry of tree, through subtrees only.
RECURSIVE NamesTreeEntry(_, _)
NamesTreeEntry(tree, path) ==
  \/ path = << >>
  \/ \E i \in 1..Len(TreeEntries(tree)) :
       /\ TreeEntries(tree)[i].name = Head(path)
       /\ \/ Len(path) = 1
          \/ /\ TreeEntries(tree)[i].type = "tree"
             /\ NamesTreeEntry(TreeEntries(tree)[i].oid, Tail(path))
VirtualPaths == {d.oid_paths[i] : i \in 1..d.oid_entry_count}
MissingPath(path) == ~NamesTreeEntry("T0", path) /\ path \notin VirtualPaths

\* C9: resolving a path that names no entry of the tree and is no enabled
\* oid file never succeeds, and fails with -ENOENT whenever the entry could
\* be allocated; so for the name of an oid file under a subdirectory, such
\* as /docs/.git-fs-tree-id.  The caller gets no entry and no attributes.
C9_MissingNotFound ==
  (last.op \in {"open", "getattr", "readlink"} /\ Returned /\ MissingPath(last.path)) =>
     /\ last.ret < 0
     /\ AllocOk(last.env) => last.ret = -ENOENT
     /\ last.op = "open" => hstate[last.h] = "Empty" /\ fh[last.h] = NullPtr
     /\ ~last.st.written /\ last.out = << >>

\* C9 witness: getattr of an oid file's name under a subdirectory, with the
\* oid files enabled, returned -ENOENT.
C9_Witness ==
  /\ last.op = "getattr" /\ Returned
  /\ last.path = <<"docs", ".git-fs-tree-id">> /\ TreeIdPath \in VirtualPaths
  /\ last.env = "ok" /\ last.ret = -ENOENT

\* C10: a read on an open slot fails with -EIO exactly when the entry is a
\* directory or a file whose mode is neither regular nor symlink; on a file
\* of regular or symlink mode and on an oid file it succeeds and returns the
\* content clipped to the request.
C10_ReadFailsOnlyOnNonFiles ==
  (last.op = "read" /\ Resolved(last.h)) =>
     IF \/ EntryOf(last.h).type = GITFS_DIR
        \/ /\ EntryOf(last.h).type = GITFS_FILE
           /\ FileType(EntryOf(last.h).tree_entry.mode) \notin {S_IFREG, S_IFLNK}
     THEN Returned /\ last.ret = -EIO
     ELSE /\ Returned /\ last.ret >= 0
          /\ last.a >= 0 =>
               /\ last.ret = Min(last.b, Max(0, Len(ContentOf(EntryOf(last.h))) - last.a))
               /\ last.out = Bytes(ContentOf(EntryOf(last.h)), last.a, last.ret)

\* What a path is in the mounted tree: the root and subtrees are directories,
\* blobs are symlinks or files by their mode, a name of the registry that the
\* tree does not have is an oid file, any other path is missing.
PathKind(path) ==
  IF path = << >> THEN "dir"
  ELSE LET te == git_tree_entry_bypath("T0", path)
       IN IF te.type = "tree" THEN "dir"
          ELSE IF te.type = "blob"
          THEN IF FileType(te.mode) = S_IFLNK THEN "symlink" ELSE "file"
          ELSE IF te.type = "none" /\ path \in VirtualPaths THEN "virtual"
          ELSE "missing"
\* The blob a path of the tree names.
PathBlob(path) == BlobContent(git_tree_entry_bypath("T0", path).oid)

\* Every entry and native reference is accounted for by a Resolved slot.
NothingLeaked ==
  /\ LiveCells = SlotCells
  /\ \A o \in ObjectIds : objRefs[o] = EntryRefs(o) + RootHeld(o)
  /\ teLive = Cardinality({a \in LiveCells : heap[a].type = GITFS_FILE})

\* C11: readlink with a buffer of size >= 1 on a path that is a symlink of
\* length L (L below 2^(IntBits-1)) returns 0 and writes the first
\* min(L, size - 1) bytes of the link and then one terminator, truncation
\* being no error; on a path that is a file, a directory or an oid file it
\* returns -EIO; in every case the entry it resolved is freed when it returns.
C11_ReadlinkTruncates ==
  (last.op = "readlink" /\ last.a >= 1 /\ PathKind(last.path) # "missing") =>
     /\ Returned
     /\ NothingLeaked
     /\ IF PathKind(last.path) = "symlink"
        THEN /\ last.ret = 0
             /\ last.out = Bytes(PathBlob(last.path), 0,
                                 Min(Len(PathBlob(last.path)), last.a - 1)) \o <<0>>
        ELSE last.ret = -EIO /\ last.out = << >>

\* C11 witness: a link of 4 bytes was read into a buffer of 2: one byte and
\* the terminator, no error.
C11_Witness ==
  /\ last.op = "readlink" /\ Returned /\ last.path = <<"link">> /\ last.a = 2
  /\ last.ret = 0 /\ last.out = <<100, 0>>

\* The buffer of the oid file registered under path.
VirtualContent(path) ==
  d.oid_entries[CHOOSE i \in 1..d.oid_entry_count : d.oid_paths[i] = path].object.buf
\* The timestamp of the mounted snapshot: the commit's time, or the time
\* main() ran for a bare tree.
SnapshotTimes == IF argv.rev = "commit" THEN {git_commit_time("C0")} ELSE Clock

\* C12: getattr on a path that resolves returns 0 and attributes given by the
\* kind of entry: a directory has size 4096, 2 links and mode directory 0755;
\* a file has the size of its blob, 1 link and its stored mode, a symlink
\* having the symlink type with permissions 0777; an oid file has the size of
\* its buffer (41), 1 link and mode regular 0444; all have atime, mtime and
\* ctime equal to the snapshot's timestamp and uid and gid 0.  When the lookup
\* fails getattr returns the error and writes nothing to the buffer.
C12_GetattrAttributes ==
  (last.op = "getattr" /\ Returned) =>
     /\ (PathKind(last.path) # "missing" /\ last.env = "ok") => last.ret = 0
     /\ last.ret < 0 => last.st = NoStat
     /\ last.ret >= 0 =>
          /\ last.ret = 0 /\ last.st.written
          /\ last.st.atime = d.commit_time /\ last.st.mtime = d.commit_time
          /\ last.st.ctime = d.commit_time /\ d.commit_time \in SnapshotTimes
          /\ last.st.uid = 0 /\ last.st.gid = 0
          /\ PathKind(last.path) \in {"dir", "file", "symlink", "virtual"}
          /\ PathKind(last.path) = "dir" =>
               last.st.size = 4096 /\ last.st.nlink = 2 /\ last.st.mode = S_IFDIR + 493
          /\ PathKind(last.path) = "file" =>
               /\ last.st.size = Len(PathBlob(last.path)) /\ last.st.nlink = 1
               /\ last.st.mode = git_tree_entry_bypath("T0", last.path).mode
          /\ PathKind(last.path) = "symlink" =>
               /\ last.st.size = Len(PathBlob(last.path)) /\ last.st.nlink = 1
               /\ last.st.mode = S_IFLNK + 511
          /\ PathKind(last.path) = "virtual" =>
               /\ last.st.size = Len(VirtualContent(last.path)) /\ last.st.size = 41
               /\ last.st.nlink = 1 /\ last.st.mode = S_IFREG + 292

\* C12 witness: getattr of a symlink of 4 bytes reported a link with
\* permissions 0777 and size 4.
C12_Witness ==
  /\ last.op = "getattr" /\ Returned /\ last.path = <<"link">> /\ last.ret = 0
  /\ last.st.mode = S_IFLNK + 511 /\ last.st.size = 4 /\ last.st.nlink = 1

\* The value of a lowercase hex digit, -1 for any other character.
HexVal(c) == IF c \in 48..57 THEN c - 48 ELSE IF c \in 97..102 THEN c - 87 ELSE -1
\* The bytes a string of hex digits stands for.
HexDecode(s) == [i \in 1..(Len(s) \div 2) |-> 16 * HexVal(s[2 * i - 1]) + HexVal(s[2 * i])]
\* The registry as main() is to leave it: the paths in order, and the object
\* whose id each file shows.
ExpectedRegistry ==
  IF argv.no_oid_files THEN << >>
  ELSE IF argv.rev = "commit"
  THEN << [path |-> CommitIdPath, oid |-> "C0"], [path |-> TreeIdPath, oid |-> "T0"] >>
  ELSE << [path |-> TreeIdPath, oid |-> "T0"] >>
RegistryLive == Len(log) >= 2 /\ \A i \in 1..OidEntriesLen : frees.buf[i] = 0

\* C13: once main() has resolved the revision, the registry holds nothing
\* when no-oid-files is set; otherwise the tree-id file in every case and the
\* commit-id file exactly when the revision is a commit.  The content of each
\* is 40 lowercase hex digits that decode to the id of the tree (of the
\* commit), then a newline.  The registry never holds more than 2 entries.
C13_RegistryContents ==
  /\ d.oid_entry_count <= 2
  /\ RegistryLive =>
       /\ d.oid_entry_count = Len(ExpectedRegistry)
       /\ \A i \in 1..d.oid_entry_count :
            /\ d.oid_paths[i] = ExpectedRegistry[i].path
            /\ d.oid_entries[i].type = GITFS_OID
            /\ Len(d.oid_entries[i].object.buf) = 41
            /\ d.oid_entries[i].object.buf[41] = 10
            /\ HexDecode(SubSeq(d.oid_entries[i].object.buf, 1, 40))
                 = OidRaw(ExpectedRegistry[i].oid)

\* C13 witness: a commit is mounted with the oid files, and a callback runs
\* with both files registered.
C13_Witness ==
  /\ pc = "serving" /\ argv.rev = "commit" /\ ~argv.no_oid_files
  /\ d.oid_entry_count = 2 /\ <<d.oid_paths[1], d.oid_paths[2]>> = <<CommitIdPath, TreeIdPath>>
  /\ last.op = "getattr" /\ last.path = TreeIdPath /\ last.ret = 0

\* The memory of a mount that has served nothing yet.
FreshMem ==
  [heap |-> [a \in Addrs |-> FreeCell],
   objRefs |-> [o \in ObjectIds |-> IF o = d.tree THEN 1 ELSE 0],
   teLive |-> 0, fault |-> {}, bufFrees |-> [i \in 1..OidEntriesLen |-> 0],
   ret |-> 0, out |-> NullPtr, uninit |-> FALSE]
\* What a resolution reports: the failure, or the type, size and mode of the
\* entry.
OutcomeOf(r) ==
  IF r.ret < 0 THEN [ret |-> r.ret, type |-> -1, size |-> 0, mode |-> 0]
  ELSE [ret |-> 0, type |-> Deref(r, r.out).type,
        size |-> StatOf(Deref(r, r.out)).size, mode |-> StatOf(Deref(r, r.out)).mode]
ResolveIn(m, path, env) == OutcomeOf(gitfs_lookup_entry(m, path, AllocOk(env), ObjOk(env)))

C15_ClipDoesNotWrap ==
  /\ "read_overrun" \notin fault
  /\ (last.op = "read" /\ Resolved(last.h) /\ IsOpenFile(EntryOf(last.h))) =>
       /\ Returned
       /\ last.ret <= Max(0, Len(ContentOf(EntryOf(last.h))) - last.a)
       /\ Len(last.out) <= Max(0, Len(ContentOf(EntryOf(last.h))) - last.a)

\* C16: for every length of link and every buffer size readlink can be given,
\* 0 and 1 included, readlink writes at most size bytes (content and
\* terminator) and never past the end of the buffer.
C16_ReadlinkWithinBuffer ==
  /\ "readlink_overrun" \notin fault
  /\ (last.op = "readlink" /\ PathKind(last.path) = "symlink") =>
       Returned /\ Len(last.out) <= last.a

\* C17: when the allocation of the entry fails in the resolver, the callback
\* returns -ENOMEM, no entry is left in the output or in fi->fh, nothing is
\* leaked, and the cleanup frees only what this resolution obtained: no
\* uninitialized pointer is passed to a free routine.
C17_AllocationFailureClean ==
  /\ "uninit_free" \notin fault
  /\ (last.op \in {"open", "getattr", "readlink"} /\ ~AllocOk(last.env)) =>
       /\ Returned /\ last.ret = -ENOMEM
       /\ NothingLeaked
       /\ last.op = "open" => fh[last.h] = NullPtr /\ hstate[last.h] = "Empty"

\* Whether the tree of the mount has a directory, file or symlink at path.
InRealTree(path) == PathKind(path) \in {"dir", "file", "symlink"}
InRegistry(path) == \E i \in 1..d.oid_entry_count : d.oid_paths[i] = path
\* What a full lookup of path is to answer under env: the result of the tree
\* when it is not -ENOENT, the registry's otherwise.
FullLookupRet(path, env) ==
  IF ~AllocOk(env) THEN -ENOMEM
  ELSE IF InRealTree(path)
  THEN IF path # << >> /\ ~ObjOk(env) THEN -EIO ELSE 0
  ELSE IF InRegistry(path) THEN 0 ELSE -ENOENT
FromRegistry(path, env) == AllocOk(env) /\ ~InRealTree(path) /\ InRegistry(path)

\* C18: a full lookup that returns gives the registry's answer exactly when
\* the tree answered -ENOENT: a path the tree has yields the tree's entry
\* even when an oid file has the same path, and -EIO or -ENOMEM of the tree
\* lookup is returned as it is, whether or not the registry has the path.
C18_RegistryOnlyOnNotFound ==
  (pc = "serving" /\ last.op \in {"open", "getattr"} /\ Returned) =>
     /\ last.ret = FullLookupRet(last.path, last.env)
     /\ (last.op = "open" /\ last.ret = 0) =>
          (fh[last.h].k = "oid" <=> FromRegistry(last.path, last.env))
     /\ (last.op = "getattr" /\ last.ret = 0) =>
          (last.st.mode = OidStMode /\ last.st.size = GIT_OID_HEXSZ + 1
             <=> FromRegistry(last.path, last.env))
C18_Witness ==
  /\ pc = "serving" /\ d.oid_entry_count = 2
  /\ last.op = "open" /\ last.path = CommitIdPath /\ last.env = "ok" /\ last.ret = 0
  /\ fh[last.h].k = "heap" /\ EntryOf(last.h).type = GITFS_FILE

\* The terminal tree entry of path is there and is neither a subtree nor a
\* blob.
OtherObjectPath(path) ==
  path # << >> /\ git_tree_entry_bypath("T0", path).type \notin {"none", "tree", "blob"}

\* C19: a lookup that reaches a terminal tree entry which is neither a
\* subtree nor a blob (the submodule mod) answers -ENOENT, also when the
\* object store cannot be read, stores no entry, and leaves neither an entry
\* nor a tree-entry copy nor an object reference behind.
C19_OtherObjectsNotFound ==
  (pc = "serving" /\ last.op \in {"open", "getattr", "readlink"} /\ Returned
     /\ OtherObjectPath(last.path) /\ AllocOk(last.env)) =>
     /\ last.ret = -ENOENT
     /\ NothingLeaked
     /\ last.op = "open" => fh[last.h] = NullPtr /\ hstate[last.h] = "Empty"
C19_Witness ==
  /\ pc = "serving" /\ last.op = "getattr" /\ Returned
  /\ last.path = <<"mod">> /\ last.env = "ioerr" /\ last.ret = -ENOENT
  /\ NothingLeaked

\* The content main() gave the i-th oid file.
RegistryContent(i) == git_oid_fmt(OidRaw(ExpectedRegistry[i].oid)) \o <<10>>
\* The Snapshot and the registry as a callback finds them: the root tree
\* held once, and each oid file's buffer allocated, with its content.
SnapshotIntact ==
  /\ d.tree = "T0" /\ frees.tree = 0 /\ objRefs[d.tree] >= 1
  /\ d.oid_entry_count = Len(ExpectedRegistry)
  /\ \A i \in 1..d.oid_entry_count :
       /\ d.oid_paths[i] = ExpectedRegistry[i].path
       /\ d.oid_entries[i].object.buf = RegistryContent(i)
       /\ frees.buf[i] = 0
\* A step the mount takes while it serves: a callback, returning or dying,
\* or the dispatch layer.
ServingStep == pc = "serving" /\ pc' \in {"serving", "crashed"}

\* C20: while the mount serves, no step of a callback, returning, failing or
\* dying, changes gitfs_data (root tree, commit time, registry paths,
\* contents and count) or frees the root tree or a registry buffer; so after
\* the release of a handle on an oid file, an open of that file gets the same
\* registry entry and a read or getattr shows its whole content.
C20_CallbacksLeaveSnapshot ==
  /\ [](pc = "serving" =>
          /\ SnapshotIntact
          /\ (last.op = "read" /\ Returned /\ Resolved(last.h) /\ fh[last.h].k = "oid") =>
                last.out = Bytes(RegistryContent(fh[last.h].i), last.a, last.b)
          /\ (last.op = "getattr" /\ Returned /\ FromRegistry(last.path, last.env)) =>
                last.st.size = Len(RegistryContent(1)))
  /\ [][ServingStep => /\ d' = d
                       /\ frees' = frees
                       /\ objRefs'[d.tree] >= 1]_vars
C20_Witness ==
  /\ pc = "serving"
  /\ hstate[1] = "Released" /\ hpath[1] = TreeIdPath /\ fh[1].k = "oid"
  /\ last.op = "open" /\ last.h = 2 /\ last.path = TreeIdPath /\ last.ret = 0
  /\ fh[2] = fh[1]
  /\ d.oid_entries[fh[2].i].object.buf = RegistryContent(fh[2].i)
  /\ frees.buf[fh[2].i] = 0

\* gitfs_init returned d: its last step, the lookup of the root tree, was
\* taken.
InitSucceeded == \E i \in DOMAIN log : log[i].step = "lookup_tree"
\* fuse_main has returned to main().
FuseMainReturned == pc \in {"returned", "exit"} /\ (InitSucceeded \/ fuseExited)

\* C21: the repository opened by gitfs_init, the root tree and each oid
\* buffer are freed at most once in every execution, also one in which a
\* callback kills the process.  When fuse_main has returned after a
\* successful gitfs_init each of them was freed exactly once; when it has
\* returned after gitfs_init failed and ran gitfs_destroy itself, the destroy
\* callback got NULL and freed nothing again: the buffers were freed once,
\* and the repository and the tree once if they had been obtained.
C21_TornDownOnce ==
  /\ frees.tree <= 1 /\ frees.repo <= 1
  /\ \A i \in 1..OidEntriesLen : frees.buf[i] <= (IF i <= d.oid_entry_count THEN 1 ELSE 0)
  /\ (FuseMainReturned /\ InitSucceeded) =>
        /\ frees.tree = 1 /\ frees.repo = 1
        /\ \A i \in 1..d.oid_entry_count : frees.buf[i] = 1
  /\ (FuseMainReturned /\ ~InitSucceeded) =>
        /\ private_data = "NULL"
        /\ frees.tree = 0
        /\ frees.repo = (IF d.repo # "NULL" THEN 1 ELSE 0)
        /\ \A i \in 1..d.oid_entry_count : frees.buf[i] = 1
C21_Witness ==
  /\ pc = "returned" /\ fuseExited /\ ~InitSucceeded
  /\ d.repo # "NULL" /\ frees.repo = 1
  /\ d.oid_entry_count = 2 /\ frees.buf[1] = 1 /\ frees.buf[2] = 1

\* C22: every name a listing of a directory has emitted names an entry that
\* a lookup of the directory's path followed by the name finds, when memory
\* and the object store serve it.
C22_ListedNamesResolve ==
  pc = "serving" =>
    \A h \in Handles :
      (Resolved(h) /\ EntryOf(h).type = GITFS_DIR) =>
         \A i \in 1..Len(emitted[h]) :
            ResolveIn(Mem, Append(hpath[h], emitted[h][i]), "ok").ret = 0

\* C23: main() reads no field of gitfs_data after free(d): the status the
\* process exits with after fuse_main has returned is the retval the
\* structure held while it was allocated.
C23_RetvalReadWhileLive ==
  /\ "retval_read_after_free" \notin fault
  /\ (pc = "exit" /\ FuseMainReturned) => exitStatus = d.retval

====
